---- MODULE Spec2Model ----
(***************************************************************************)
(* Model of app.py: the Streamlit script that opens an uploaded PDF or     *)
(* image, and on request composes a two-up PDF in which every source page  *)
(* is rotated 90 degrees CCW and placed twice, side by side, with a gap.   *)
(*                                                                         *)
(* One behaviour is one run of the script (Streamlit runs the script from  *)
(* the top on every interaction, with the widget values as its inputs).    *)
(* The run is split where it calls into the PDF library, because each of   *)
(* those calls either returns or raises.                                   *)
(*                                                                         *)
(* Lengths.  The code computes in floating-point points.  The model        *)
(* carries every length as an integer number of units of 1/254 pt, in      *)
(* which 1 mm = 72/25.4 pt = 720 units exactly, so that the geometry is    *)
(* exact rational arithmetic (floating-point rounding is not modelled).    *)
(* Page sizes are whole points and the gap is a whole number of steps of   *)
(* the gap widget (0.5 mm).                                                *)
(***************************************************************************)
EXTENDS Integers, Sequences, FiniteSets, TLC

\* ---------------------------------------------------------------- bounds
\* Longest source document, in pages.
MaxPages == 2
\* Largest page width and height, in points (0 is a degenerate page).
MaxDim == 2
\* Largest gap, in steps of the gap widget.
MaxGap == 3

\* ------------------------------------------------------------- constants
\* MM_TO_PT = 72.0 / 25.4, as the fraction 720 / 254.
UnitsPerMm == 720
UnitsPerPt == 254
\* The gap widget's step, 0.5 mm: two steps to the millimetre.
StepsPerMm == 2
\* rotate=90 of both show_pdf_page calls.
ROTATE == 90

VARIABLES
    pc,        \* position of the run in the script
    uploaded,  \* the file uploader's value
    gap_mm,    \* the gap widget's value, in steps of 0.5 mm
    clicked,   \* what st.button returns in this run
    src_pdf,   \* the source document opened by _open_as_pdf
    out_doc,   \* the output document of process_document_to_two_up
    frame,     \* the local variables of process_document_to_two_up
    ui,        \* what the run has put on the page
    exc        \* the exception the run raised, "none" when it raised none

vars == <<pc, uploaded, gap_mm, clicked, src_pdf, out_doc, frame, ui, exc>>

\* ------------------------------------------------------------ the inputs
Dims == 0 .. MaxDim
PageSizes == [w : Dims, h : Dims]

RECURSIVE SeqsUpTo(_, _)
SeqsUpTo(S, n) ==
    IF n = 0 THEN {<<>>}
    ELSE LET shorter == SeqsUpTo(S, n - 1)
         IN  shorter \cup {Append(s, x) : s \in {t \in shorter : Len(t) = n - 1}, x \in S}

\* type=["pdf", "png", "jpg", "jpeg"]: a PDF has any number of pages, an
\* image is one page of its pixel size (1 px = 1 pt).
NoFile == [ext |-> "none", pages |-> <<>>]
Files ==
    [ext : {"pdf"}, pages : SeqsUpTo(PageSizes, MaxPages)]
    \cup [ext : {"png", "jpg", "jpeg"}, pages : {<<s>> : s \in PageSizes}]

\* ------------------------------------------------------------- geometry
Rect(x0, y0, x1, y1) == [x0 |-> x0, y0 |-> y0, x1 |-> x1, y1 |-> y1]
NoRect == Rect(0, 0, 0, 0)

\* A page dimension in points, as units.
Pt(p) == p * UnitsPerPt

\* gap_pt = gap_mm * MM_TO_PT
GapPt(g) == (g * UnitsPerMm) \div StepsPerMm

\* sw, sh = src_page.rect.width, src_page.rect.height
SrcWidth(page) == Pt(page.w)
SrcHeight(page) == Pt(page.h)

\* rot_w, rot_h = sh, sw
\* (RotWUnswapped: the width is taken without the quarter turn's swap.)
RotWUnswapped(sw, sh) == sw
RotW(sw, sh) == sh
RotH(sw, sh) == sw

\* out_w = (rot_w * 2.0) + gap_pt ; out_h = rot_h
\* (OutWNoGap: the page is sized for the two copies alone.)
OutWNoGap(rot_w, gap_pt) == rot_w * 2
OutW(rot_w, gap_pt) == (rot_w * 2) + gap_pt
OutH(rot_h) == rot_h

LeftRect(rot_w, rot_h, gap_pt) == Rect(0, 0, rot_w, rot_h)
\* (RightRectNoGap: the second copy starts where the first ends.
\*  RightRectBackwards: the gap is subtracted instead of added.)
RightRectNoGap(rot_w, rot_h, gap_pt) == Rect(rot_w, 0, rot_w * 2, rot_h)
RightRectBackwards(rot_w, rot_h, gap_pt) ==
    Rect(rot_w - gap_pt, 0, (rot_w * 2) - gap_pt, rot_h)
RightRect(rot_w, rot_h, gap_pt) ==
    Rect(rot_w + gap_pt, 0, (rot_w * 2) + gap_pt, rot_h)

\* ------------------------------------------------------------ documents
ClosedDoc == [open |-> FALSE, pages |-> <<>>]

\* _open_as_pdf: every branch ends in a PDF document holding the file's pages.
OpenAsPdf(file) ==
    IF file.ext = "pdf" THEN [open |-> TRUE, pages |-> file.pages]
    ELSE IF file.ext \in {"png", "jpg", "jpeg"}
         THEN [open |-> TRUE, pages |-> <<file.pages[1]>>]
         ELSE [open |-> TRUE, pages |-> file.pages]

\* out_doc.new_page(width, height): the new page goes after the last one.
\* (NewPageAtFront: the new page is inserted before the first one.)
NewPageAtFront(doc, w, h) ==
    [doc EXCEPT !.pages = <<[w |-> w, h |-> h, draws |-> <<>>]>> \o @]
NewPage(doc, w, h) ==
    [doc EXCEPT !.pages = Append(@, [w |-> w, h |-> h, draws |-> <<>>])]

\* out_page: the page new_page returned, by its place in out_doc.
NewPageIndex(doc) == Len(doc.pages) + 1

\* show_pdf_page(rect, src_doc, pno, rotate=90) on page at of doc.
Request(rect, pno) == [rect |-> rect, doc |-> "src_doc", pno |-> pno, rotate |-> ROTATE]
LeftRequest(f) == Request(f.left_rect, f.pno)
\* (RightRequestLeftRect: the second call is given the first rectangle.)
RightRequestLeftRect(f) == Request(f.left_rect, f.pno)
RightRequest(f) == Request(f.right_rect, f.pno)
ShowPdfPage(doc, at, req) ==
    [doc EXCEPT !.pages[at].draws = Append(@, req)]

\* ------------------------------------------------------------ the locals
FreshFrame ==
    [pno |-> 0, gap_pt |-> 0, sw |-> 0, sh |-> 0, rot_w |-> 0, rot_h |-> 0,
     out_w |-> 0, out_h |-> 0, out_page |-> 0,
     left_rect |-> NoRect, right_rect |-> NoRect]

\* (PlacementTallest: the output height is kept from the tallest page so far.)
PlacementTallest(f, page) ==
    LET sw == SrcWidth(page)
        sh == SrcHeight(page)
        rot_w == RotW(sw, sh)
        rot_h == IF f.out_h > RotH(sw, sh) THEN f.out_h ELSE RotH(sw, sh)
    IN  [f EXCEPT !.sw = sw, !.sh = sh, !.rot_w = rot_w, !.rot_h = rot_h,
                  !.out_w = OutW(rot_w, f.gap_pt), !.out_h = OutH(rot_h),
                  !.left_rect = LeftRect(rot_w, rot_h, f.gap_pt),
                  !.right_rect = RightRect(rot_w, rot_h, f.gap_pt)]

\* One pass of the loop body down to the two rectangles, for the page `page`.
Placement(f, page) ==
    LET sw == SrcWidth(page)
        sh == SrcHeight(page)
        rot_w == RotW(sw, sh)
        rot_h == RotH(sw, sh)
    IN  [f EXCEPT !.sw = sw, !.sh = sh, !.rot_w = rot_w, !.rot_h = rot_h,
                  !.out_w = OutW(rot_w, f.gap_pt), !.out_h = OutH(rot_h),
                  !.left_rect = LeftRect(rot_w, rot_h, f.gap_pt),
                  !.right_rect = RightRect(rot_w, rot_h, f.gap_pt)]

\* ---------------------------------------------------------------- the UI
NoBytes == <<"none">>
FreshUi ==
    [errors |-> 0, success |-> FALSE, download |-> NoBytes, label |-> 0,
     preview |-> "none", info |-> 0]

\* int(round(gap_mm)): Python rounds a half to the even neighbour.
GapLabel(g) ==
    LET lo == g \div StepsPerMm
    IN  IF g % StepsPerMm = 0 THEN lo
        ELSE IF lo % 2 = 0 THEN lo ELSE lo + 1

\* except Exception as e: st.error(...)
HandleError(u) == [u EXCEPT !.errors = @ + 1]

\* out_doc.tobytes(): the bytes hold the document's pages.
ToBytes(doc) == <<"pdf", doc.pages>>

\* ----------------------------------------------------------------- Init
Init ==
    /\ pc = "start"
    /\ uploaded \in {NoFile} \cup Files
    /\ gap_mm \in 0 .. MaxGap
    /\ clicked \in BOOLEAN
    /\ src_pdf = ClosedDoc
    /\ out_doc = ClosedDoc
    /\ frame = FreshFrame
    /\ ui = FreshUi
    /\ exc = "none"

\* -------------------------------------------------------------- actions
\* if uploaded is not None: false, the script ends.
NothingUploaded ==
    /\ pc = "start"
    /\ uploaded = NoFile
    /\ pc' = "done"
    /\ UNCHANGED <<uploaded, gap_mm, clicked, src_pdf, out_doc, frame, ui, exc>>

\* uploaded.read(), _open_as_pdf and the input details panel.
Open ==
    /\ pc = "start"
    /\ uploaded # NoFile
    /\ src_pdf' = OpenAsPdf(uploaded)
    /\ ui' = [ui EXCEPT !.info = Len(src_pdf'.pages)]
    /\ pc' = "opened"
    /\ UNCHANGED <<uploaded, gap_mm, clicked, out_doc, frame, exc>>

\* fitz.open raises on bytes it cannot decode.
OpenFails ==
    /\ pc = "start"
    /\ uploaded # NoFile
    /\ exc' = "loader"
    /\ ui' = HandleError(ui)
    /\ pc' = "done"
    /\ UNCHANGED <<uploaded, gap_mm, clicked, src_pdf, out_doc, frame>>

\* st.button returned False: the run ends with the details panel.
NotClicked ==
    /\ pc = "opened"
    /\ ~clicked
    /\ pc' = "done"
    /\ UNCHANGED <<uploaded, gap_mm, clicked, src_pdf, out_doc, frame, ui, exc>>

\* process_document_to_two_up is entered: out_doc = fitz.open(), gap_pt.
Begin ==
    /\ pc = "opened"
    /\ clicked
    /\ out_doc' = [open |-> TRUE, pages |-> <<>>]
    /\ frame' = [FreshFrame EXCEPT !.gap_pt = GapPt(gap_mm)]
    /\ pc' = "loop"
    /\ UNCHANGED <<uploaded, gap_mm, clicked, src_pdf, ui, exc>>

\* (ComposePageValidated: a page of zero width or height is refused.)
ComposePageValidated ==
    /\ pc = "loop"
    /\ frame.pno < Len(src_pdf.pages)
    /\ src_pdf.pages[frame.pno + 1].w > 0
    /\ src_pdf.pages[frame.pno + 1].h > 0
    /\ LET f == Placement(frame, src_pdf.pages[frame.pno + 1])
       IN  /\ out_doc' = NewPage(out_doc, f.out_w, f.out_h)
           /\ frame' = [f EXCEPT !.out_page = NewPageIndex(out_doc)]
    /\ pc' = "show_left"
    /\ UNCHANGED <<uploaded, gap_mm, clicked, src_pdf, ui, exc>>

\* The loop body for page pno, down to the rectangles: the sizes, new_page.
ComposePage ==
    /\ pc = "loop"
    /\ frame.pno < Len(src_pdf.pages)
    /\ LET f == Placement(frame, src_pdf.pages[frame.pno + 1])
       IN  /\ out_doc' = NewPage(out_doc, f.out_w, f.out_h)
           /\ frame' = [f EXCEPT !.out_page = NewPageIndex(out_doc)]
    /\ pc' = "show_left"
    /\ UNCHANGED <<uploaded, gap_mm, clicked, src_pdf, ui, exc>>

\* out_page.show_pdf_page(left_rect, src_doc, pno, rotate=90)
ShowLeft ==
    /\ pc = "show_left"
    /\ out_doc' = ShowPdfPage(out_doc, frame.out_page, LeftRequest(frame))
    /\ pc' = "show_right"
    /\ UNCHANGED <<uploaded, gap_mm, clicked, src_pdf, frame, ui, exc>>

\* out_page.show_pdf_page(right_rect, src_doc, pno, rotate=90), and the
\* loop goes on to the next page.
ShowRight ==
    /\ pc = "show_right"
    /\ out_doc' = ShowPdfPage(out_doc, frame.out_page, RightRequest(frame))
    /\ frame' = [frame EXCEPT !.pno = @ + 1]
    /\ pc' = "loop"
    /\ UNCHANGED <<uploaded, gap_mm, clicked, src_pdf, ui, exc>>

\* (ShowFailsSkipsPage: the failure is noted and the loop goes on.)
ShowFailsSkipsPage ==
    /\ pc \in {"show_left", "show_right"}
    /\ exc' = "content"
    /\ frame' = [frame EXCEPT !.pno = @ + 1]
    /\ pc' = "loop"
    /\ UNCHANGED <<uploaded, gap_mm, clicked, src_pdf, out_doc, ui>>

\* Either show_pdf_page raises (the page's content cannot be transcluded):
\* the exception leaves process_document_to_two_up and reaches the handler.
ShowFails ==
    /\ pc \in {"show_left", "show_right"}
    /\ exc' = "content"
    /\ ui' = HandleError(ui)
    /\ pc' = "done"
    /\ UNCHANGED <<uploaded, gap_mm, clicked, src_pdf, out_doc, frame>>

\* The loop is over: pdf_bytes = out_doc.tobytes(); out_doc.close(); then,
\* back in the script, src_pdf.close(), the file name, st.success and the
\* download button.
Export ==
    /\ pc = "loop"
    /\ frame.pno >= Len(src_pdf.pages)
    /\ ui' = [ui EXCEPT !.download = ToBytes(out_doc), !.success = TRUE,
                        !.label = GapLabel(gap_mm)]
    /\ out_doc' = [out_doc EXCEPT !.open = FALSE]
    /\ src_pdf' = [src_pdf EXCEPT !.open = FALSE]
    /\ pc' = "preview"
    /\ UNCHANGED <<uploaded, gap_mm, clicked, frame, exc>>

\* out_doc.tobytes() raises (the library cannot write the document).
ExportFails ==
    /\ pc = "loop"
    /\ frame.pno >= Len(src_pdf.pages)
    /\ exc' = "serialize"
    /\ ui' = HandleError(ui)
    /\ pc' = "done"
    /\ UNCHANGED <<uploaded, gap_mm, clicked, src_pdf, out_doc, frame>>

\* The preview of the first output page.
Preview ==
    /\ pc = "preview"
    /\ ui' = [ui EXCEPT !.preview = "image"]
    /\ pc' = "done"
    /\ UNCHANGED <<uploaded, gap_mm, clicked, src_pdf, out_doc, frame, exc>>

\* The preview raises; its own handler shows st.info and the run goes on.
PreviewFails ==
    /\ pc = "preview"
    /\ ui' = [ui EXCEPT !.preview = "info"]
    /\ pc' = "done"
    /\ UNCHANGED <<uploaded, gap_mm, clicked, src_pdf, out_doc, frame, exc>>

Next ==
    \/ NothingUploaded
    \/ Open
    \/ OpenFails
    \/ NotClicked
    \/ Begin
    \/ ComposePage
    \/ ShowLeft
    \/ ShowRight
    \/ ShowFails
    \/ Export
    \/ ExportFails
    \/ Preview
    \/ PreviewFails

Spec == Init /\ [][Next]_vars

\* ------------------------------------------------- what the claims read
\* The source page that output page i stands for: page i of the upload.
SourceOf(i) == uploaded.pages[i]
OutPages == 1 .. Len(out_doc.pages)
\* The run is at one of the two show_pdf_page calls of the current page.
Showing == pc \in {"show_left", "show_right"}
\* process_document_to_two_up returned its bytes and they were offered.
Delivered == ui.download # NoBytes
\* The gap in units of 1/254 pt: gap_mm / 2 millimetres of 720 units each.
ExpectedGap == 360 * gap_mm
\* The rotated size of a source page, in units: width and height exchanged.
ExpectedRotW(page) == 254 * page.h
ExpectedRotH(page) == 254 * page.w
ExpectedLeft(page) ==
    [x0 |-> 0, y0 |-> 0, x1 |-> ExpectedRotW(page), y1 |-> ExpectedRotH(page)]
ExpectedRight(page) ==
    [x0 |-> ExpectedRotW(page) + ExpectedGap, y0 |-> 0,
     x1 |-> (2 * ExpectedRotW(page)) + ExpectedGap, y1 |-> ExpectedRotH(page)]
Degenerate(page) == page.w = 0 \/ page.h = 0
Width(r) == r.x1 - r.x0
Height(r) == r.y1 - r.y0
Min(a, b) == IF a < b THEN a ELSE b
Max(a, b) == IF a > b THEN a ELSE b
OverlapArea(a, b) ==
    Max(0, Min(a.x1, b.x1) - Max(a.x0, b.x0))
        * Max(0, Min(a.y1, b.y1) - Max(a.y0, b.y0))

\* ----------------------------------------------------------------- C1
\* C1: the output document never holds more pages than the source, output
\* page i has the size computed from source page i and carries requests
\* for source page i only, and when the bytes are delivered they hold
\* exactly one finished page per source page, in source order.
C1_PageForPage ==
    /\ Len(out_doc.pages) <= Len(uploaded.pages)
    /\ \A i \in OutPages :
          /\ out_doc.pages[i].w = (2 * ExpectedRotW(SourceOf(i))) + ExpectedGap
          /\ out_doc.pages[i].h = ExpectedRotH(SourceOf(i))
          /\ \A k \in 1 .. Len(out_doc.pages[i].draws) :
                out_doc.pages[i].draws[k].pno = i - 1
    /\ Delivered =>
          /\ ui.download[2] = out_doc.pages
          /\ Len(out_doc.pages) = Len(uploaded.pages)
          /\ \A i \in OutPages : Len(out_doc.pages[i].draws) = 2

\* A two-page document of two different pages was composed and delivered.
C1_Witness ==
    /\ pc = "done"
    /\ Delivered
    /\ Len(ui.download[2]) = 2
    /\ uploaded.pages[1] # uploaded.pages[2]

\* ----------------------------------------------------------------- C2
\* C2: every output page is 2*h + gap wide and w high for its source page
\* of size (w, h), the gap being gap_mm * 72 / 25.4 points; and at the two
\* placement calls the locals already hold the swapped size, from which the
\* page size was computed.
C2_OutputSize ==
    /\ \A i \in OutPages :
          /\ out_doc.pages[i].w = (2 * (254 * SourceOf(i).h)) + ExpectedGap
          /\ out_doc.pages[i].h = 254 * SourceOf(i).w
    /\ Showing =>
          /\ frame.gap_pt * 2 = gap_mm * 720
          /\ frame.rot_w = 254 * SourceOf(frame.pno + 1).h
          /\ frame.rot_h = 254 * SourceOf(frame.pno + 1).w
          /\ frame.out_w = (2 * frame.rot_w) + frame.gap_pt
          /\ frame.out_h = frame.rot_h

\* A page that is not square was composed with a positive gap.
C2_Witness ==
    /\ Delivered
    /\ gap_mm > 0
    /\ \E i \in OutPages : SourceOf(i).w # SourceOf(i).h /\ ~Degenerate(SourceOf(i))

\* ----------------------------------------------------------------- C3
\* C3: the two placement rectangles are (0, 0, rot_w, rot_h) and
\* (rot_w + gap, 0, 2*rot_w + gap, rot_h), so the right one starts exactly
\* the gap after the left one ends: in the locals at the two calls, and in
\* the requests issued.
C3_ExactGap ==
    /\ Showing =>
          /\ frame.left_rect = ExpectedLeft(SourceOf(frame.pno + 1))
          /\ frame.right_rect = ExpectedRight(SourceOf(frame.pno + 1))
          /\ frame.right_rect.x0 - frame.left_rect.x1 = ExpectedGap
    /\ \A i \in OutPages :
          LET d == out_doc.pages[i].draws
          IN  /\ Len(d) >= 1 => d[1].rect = ExpectedLeft(SourceOf(i))
              /\ Len(d) >= 2 =>
                    /\ d[2].rect = ExpectedRight(SourceOf(i))
                    /\ d[2].rect.x0 - d[1].rect.x1 = ExpectedGap

\* Both copies of a page were placed with a positive gap.
C3_Witness ==
    /\ gap_mm > 0
    /\ \E i \in OutPages :
          /\ ~Degenerate(SourceOf(i))
          /\ Len(out_doc.pages[i].draws) = 2

\* ----------------------------------------------------------------- C4
\* C4: on every output page the left rectangle starts at x = 0, the right
\* one ends at the page width, both run from y = 0 to the page height,
\* both have the rotated width and height, and the two widths and the gap
\* add up to the page width.
C4_ZeroMargin ==
    \A i \in OutPages :
        LET page == out_doc.pages[i]
            d == page.draws
        IN  /\ Len(d) >= 1 =>
                  /\ d[1].rect.x0 = 0
                  /\ d[1].rect.y0 = 0
                  /\ d[1].rect.y1 = page.h
                  /\ Width(d[1].rect) = ExpectedRotW(SourceOf(i))
            /\ Len(d) >= 2 =>
                  /\ d[2].rect.x1 = page.w
                  /\ d[2].rect.y0 = 0
                  /\ d[2].rect.y1 = page.h
                  /\ Width(d[2].rect) = Width(d[1].rect)
                  /\ Height(d[2].rect) = Height(d[1].rect)
                  /\ Height(d[1].rect) = ExpectedRotH(SourceOf(i))
                  /\ Width(d[1].rect) + ExpectedGap + Width(d[2].rect) = page.w

\* Both copies of a page of positive area were placed with a positive gap,
\* and the document was delivered.
C4_Witness ==
    /\ Delivered
    /\ gap_mm > 0
    /\ \E i \in OutPages :
          /\ ~Degenerate(SourceOf(i))
          /\ Len(out_doc.pages[i].draws) = 2

\* ----------------------------------------------------------------- C5
\* C5: the two rectangles of a page never overlap: with a positive gap the
\* left one ends before the right one starts, with a zero gap the left one
\* ends where the right one starts, and the area they share is zero.
C5_NoOverlap ==
    /\ Showing =>
          /\ frame.gap_pt > 0 => frame.left_rect.x1 < frame.right_rect.x0
          /\ frame.gap_pt = 0 => frame.left_rect.x1 = frame.right_rect.x0
          /\ OverlapArea(frame.left_rect, frame.right_rect) = 0
    /\ \A i \in OutPages :
          LET d == out_doc.pages[i].draws
          IN  Len(d) >= 2 =>
                /\ gap_mm > 0 => d[1].rect.x1 < d[2].rect.x0
                /\ gap_mm = 0 => d[1].rect.x1 = d[2].rect.x0
                /\ OverlapArea(d[1].rect, d[2].rect) = 0

\* Both copies of a page of positive area were placed with no gap: they
\* share the line x = rot_w.
C5_Witness ==
    /\ gap_mm = 0
    /\ \E i \in OutPages :
          /\ ~Degenerate(SourceOf(i))
          /\ Len(out_doc.pages[i].draws) = 2
          /\ out_doc.pages[i].draws[1].rect.x1 = out_doc.pages[i].draws[2].rect.x0

\* ----------------------------------------------------------------- C6
\* C6: a run that raised (in the loader, in a transclusion, in the
\* serializer) ends at once with exactly one error message, no success
\* message and no download; a download is offered only by a run that
\* raised nothing, and then it holds every source page, each with both
\* copies placed.
C6_AllOrNothing ==
    /\ ui.errors <= 1
    /\ exc # "none" =>
          /\ pc = "done"
          /\ ui.errors = 1
          /\ ~Delivered
          /\ ~ui.success
    /\ Delivered =>
          /\ exc = "none"
          /\ ui.errors = 0
          /\ Len(ui.download[2]) = Len(uploaded.pages)
          /\ \A i \in 1 .. Len(ui.download[2]) : Len(ui.download[2][i].draws) = 2

\* The second page's transclusion failed after the first page was composed.
C6_Witness ==
    /\ exc = "content"
    /\ pc = "done"
    /\ Len(out_doc.pages) = 2
    /\ Len(out_doc.pages[1].draws) = 2
    /\ ui.errors = 1
    /\ ~Delivered

\* ----------------------------------------------------------------- C7
\* C7: when a run in which the conversion was requested is over, whether
\* the conversion completed or failed, neither the source document nor the
\* output document is open.
C7_BothReleased == (pc = "done" /\ clicked) => (~src_pdf.open /\ ~out_doc.open)

AloneFrame(page) == Placement([FreshFrame EXCEPT !.gap_pt = GapPt(gap_mm)], page)
C9_PageIndependence ==
    /\ Showing =>
          LET a == AloneFrame(SourceOf(frame.pno + 1))
          IN  /\ frame.out_w = a.out_w
              /\ frame.out_h = a.out_h
              /\ frame.left_rect = a.left_rect
              /\ frame.right_rect = a.right_rect
    /\ \A i \in OutPages :
          LET a == AloneFrame(SourceOf(i))
              page == out_doc.pages[i]
          IN  /\ page.w = a.out_w
              /\ page.h = a.out_h
              /\ Len(page.draws) >= 1 => page.draws[1].rect = a.left_rect
              /\ Len(page.draws) >= 2 => page.draws[2].rect = a.right_rect

\* The second page of a document was composed after a first page that is
\* wider and taller than it.
C9_Witness ==
    /\ Len(out_doc.pages) = 2
    /\ Len(out_doc.pages[2].draws) = 2
    /\ SourceOf(1).w > SourceOf(2).w
    /\ SourceOf(1).h > SourceOf(2).h
    /\ ~Degenerate(SourceOf(2))

\* ---------------------------------------------------------------- C10
\* C10: output page i exists before any request is made on it; the
\* requests on it are, in this order, the left rectangle and then the
\* right rectangle, both for source page i of the source document with
\* rotation 90, and nothing else; pages before the current one carry both
\* requests; and the source document holds the uploaded pages throughout.
ExpectedRequests(i) ==
    << [rect |-> ExpectedLeft(SourceOf(i)), doc |-> "src_doc",
        pno |-> i - 1, rotate |-> 90],
       [rect |-> ExpectedRight(SourceOf(i)), doc |-> "src_doc",
        pno |-> i - 1, rotate |-> 90] >>
C10_TwoRequestsPerPage ==
    /\ \A i \in OutPages :
          LET d == out_doc.pages[i].draws
          IN  /\ Len(d) <= 2
              /\ d = SubSeq(ExpectedRequests(i), 1, Len(d))
              /\ i < Len(out_doc.pages) => Len(d) = 2
    /\ Showing =>
          /\ frame.out_page = frame.pno + 1
          /\ Len(out_doc.pages) = frame.pno + 1
          /\ Len(out_doc.pages[frame.out_page].draws) = (IF pc = "show_left" THEN 0 ELSE 1)
    /\ pc \in {"loop", "preview"} =>
          /\ Len(out_doc.pages) = frame.pno
          /\ \A i \in OutPages : Len(out_doc.pages[i].draws) = 2
    /\ (pc # "start" /\ uploaded # NoFile /\ exc # "loader") =>
          src_pdf.pages = uploaded.pages

\* The first request for the second page was made and the second is due.
C10_Witness ==
    /\ pc = "show_right"
    /\ frame.pno = 1
    /\ ~Degenerate(SourceOf(2))
    /\ gap_mm > 0
    /\ Len(out_doc.pages[2].draws) = 1

====
